---- MODULE Spec2Model ----
(***************************************************************************)
(* Model of rasterstats.main.gen_zonal_stats (src/src/rasterstats/main.py). *)
(*                                                                         *)
(* gen_zonal_stats is a generator: its body runs only while the consumer   *)
(* is pulling an item.  The model follows the body from the call to        *)
(* check_stats (line 125) through the per-feature loop (lines 152-314).    *)
(* The collaborators that live outside main.py (check_stats, Raster.read,  *)
(* read_features, rasterize_geom, rasterize_pctcover) return values the    *)
(* environment chooses at the moment the code calls them.                  *)
(*                                                                         *)
(* A raster window is flattened to the cells 1..NCells.  A statistic value *)
(* is a tuple of integers: <<>> is None, <<n>> an integer, <<n, d>> the    *)
(* quotient n/d.  Coverage weights are counted in sub-samples, so a weight *)
(* w stands for w/SubSamples.  Dictionary keys are strings; the key of a   *)
(* categorical pixel value v is ToString(v).                               *)
(*                                                                         *)
(* Not modelled: std, median, percentile_N, majority and minority values   *)
(* (non-integer results, or a tie-break decided by dictionary order in     *)
(* utils.key_assoc_val), category_map, and the deprecated keyword          *)
(* arguments of lines 127-145.                                             *)
(***************************************************************************)
EXTENDS Integers, Sequences, FiniteSets, TLC

\* Bounds of the model.
MaxFeatures == 2   \* features the vector source may deliver
NCells == 2        \* cells of a raster window
MaxVal == 1        \* cell values are 0..MaxVal
SubSamples == 1    \* sub-samples of one cell in a coverage weight

VARIABLES
    cfg,           \* the arguments of the call
    pc,            \* where the generator body stands
    stopped,       \* the consumer has stopped pulling
    stats,         \* line 125: the resolved selection
    run_count,     \* line 125
    weights,       \* line 125, line 157
    all_touched,   \* line 38, line 148
    rasterOpened,  \* line 150 has been reached
    nread,         \* features read from features_iter so far
    geomKind,      \* geom.type of the current feature
    fsrc,          \* "window" while the window of line 164 is held
    pctcover,      \* line 238: the local pctcover, Undefined while unbound
    pctFresh,      \* pctcover was bound in the iteration of the held item
    windows,       \* windows read by rast.read so far
    hits,          \* features that hit a MemoryError
    misshaped,     \* features whose mask had another shape than the window
    yielded,       \* features whose item was yielded, in order
    item,          \* the item the consumer holds
    populated,     \* the held item's feature had surviving values
    error          \* the exception that ended the call, or "none"

vars == <<cfg, pc, stopped, stats, run_count, weights, all_touched,
          rasterOpened, nread, geomKind, fsrc, pctcover, pctFresh,
          windows, hits, misshaped, yielded, item, populated, error>>

----------------------------------------------------------------------------
\* Values and small helpers.

None == <<>>
Num(n) == <<n>>
Quot(n, d) == <<n, d>>
EmptyMap == [k \in {} |-> None]
Undefined == <<>>          \* an unbound local variable
Cells == 1..NCells
Arrays == [Cells -> 0..MaxVal]
Masks == [Cells -> BOOLEAN]
ZeroWeights == [c \in Cells |-> 0]

RECURSIVE SumOver(_, _)
SumOver(f, S) ==
    IF S = {} THEN 0
    ELSE LET c == CHOOSE x \in S : TRUE IN f[c] + SumOver(f, S \ {c})

MinOf(S) == CHOOSE x \in S : \A y \in S : x <= y
MaxOf(S) == CHOOSE x \in S : \A y \in S : x >= y

----------------------------------------------------------------------------
\* utils.check_stats and the statistic names (utils.py is not part of src/).

DEFAULT_STATS == {"count", "min", "max", "mean"}
WeightedStats == {"weighted_mean", "weighted_count", "weighted_sum"}
VALID_STATS == DEFAULT_STATS \cup WeightedStats
                 \cup {"sum", "range", "unique", "nodata"}
InvalidNames == {"bogus", "percentile_abc"}

ResolveStats(sel, categorical) ==
    IF sel = {} THEN (IF categorical THEN {} ELSE DEFAULT_STATS) ELSE sel

StatsValid(sel) == sel \subseteq VALID_STATS

NeedsHistogram(sel, categorical) == categorical \/ "unique" \in sel

NeedsWeights(sel) == sel \cap WeightedStats # {}

----------------------------------------------------------------------------
\* Call arguments.

\* The selections of the model: every subset of CoreNames, every single
\* name, and every valid name at once ({} stands for stats=None).
CoreNames == {"count", "nodata", "weighted_count", "bogus"}
Selections ==
    (SUBSET CoreNames) \cup {{n} : n \in VALID_STATS \cup InvalidNames}
                      \cup {VALID_STATS}

\* The calls of the model: every selection with each categorical setting and
\* the other options at their defaults; every setting of the output options
\* with a few selections; each all_touched setting with a few selections.
Defaults ==
    [stats : {{"count"}}, categorical : {FALSE}, add_stats : {FALSE},
     raster_out : {FALSE}, prefix : {"None"}, geojson_out : {FALSE},
     save_properties : {FALSE}, all_touched : {FALSE}, nodata : {0}]
Configs ==
    {[d EXCEPT !.stats = sel, !.categorical = cat] :
        d \in Defaults, sel \in Selections, cat \in BOOLEAN}
    \cup
    {[d EXCEPT !.stats = sel, !.add_stats = add, !.raster_out = ro,
               !.prefix = pre, !.geojson_out = gj, !.save_properties = sp] :
        d \in Defaults, sel \in {{"count"}, {"bogus"}}, add \in BOOLEAN,
        ro \in BOOLEAN, pre \in {"None", "p_"}, gj \in BOOLEAN,
        sp \in BOOLEAN}
    \cup
    {[d EXCEPT !.stats = {"count", "weighted_count"}, !.raster_out = ro,
               !.prefix = pre] :
        d \in Defaults, ro \in BOOLEAN, pre \in {"None", "p_"}}
    \cup
    {[d EXCEPT !.stats = sel, !.all_touched = TRUE] :
        d \in Defaults, sel \in {{"count"}, {"weighted_count"}}}

GeomKinds == {"Point", "Polygon"}

----------------------------------------------------------------------------
\* The per-feature computation of lines 187-301.

\* line 195-199, 212: the cells left by the mask (covered and not nodata)
Surviving(vals, rv, nodata) == {c \in Cells : rv[c] /\ vals[c] # nodata}

\* line 188-189: covered cells that equal the nodata value
NodataCount(vals, rv, nodata) ==
    Cardinality({c \in Cells : rv[c] /\ vals[c] = nodata})

\* line 187-189
NodataPart(st, vals, rv, nodata) ==
    IF "nodata" \in st THEN "nodata" :> Num(NodataCount(vals, rv, nodata))
    ELSE EmptyMap

\* EmptyStats without the special case of line 223-224
EmptyStats_NoCountCase(st) == [s \in st |-> None]

\* line 220-224
EmptyStats(st) == [s \in st |-> IF s = "count" THEN Num(0) ELSE None]

\* line 228-230: distinct surviving value -> occurrences
PixelCount(vals, S) ==
    LET keys == {vals[c] : c \in S}
    IN [k \in {ToString(v) : v \in keys} |->
          Num(Cardinality({c \in S : ToString(vals[c]) = k}))]

\* line 244-279: one statistic of a feature with surviving cells S;
\* pcov is the array the name pctcover is bound to
StatValue(s, vals, S, pcov) ==
    LET sv == {vals[c] : c \in S}
        wv == [c \in Cells |-> vals[c] * pcov[c]]
    IN CASE s = "weighted_mean" -> Quot(SumOver(wv, S), SumOver(pcov, S))
         [] s = "weighted_count" -> Quot(SumOver(pcov, Cells), SubSamples)
         [] s = "weighted_sum" -> Quot(SumOver(wv, S), SubSamples)
         [] s = "mean" -> Quot(SumOver(vals, S), Cardinality(S))
         [] s = "count" -> Num(Cardinality(S))
         [] s = "sum" -> Num(SumOver(vals, S))
         [] s = "min" -> Num(MinOf(sv))
         [] s = "max" -> Num(MaxOf(sv))
         [] s = "unique" -> Num(Cardinality(sv))
         [] s = "range" -> Num(MaxOf(sv) - MinOf(sv))

\* line 226-284
PopulatedStats(st, categorical, runc, vals, rv, nodata, pcov) ==
    LET S == Surviving(vals, rv, nodata)
        base == IF runc /\ categorical THEN PixelCount(vals, S)
                ELSE NodataPart(st, vals, rv, nodata)
    IN [s \in st \ {"nodata"} |-> StatValue(s, vals, S, pcov)] @@ base

\* line 287-289: the custom statistic of the model counts the unmasked cells
AddStats(fs, add, vals, rv, nodata) ==
    IF add THEN ("mystat" :> Num(Cardinality(Surviving(vals, rv, nodata)))) @@ fs
    ELSE fs

\* line 292: the masked array; a masked cell is shown as -1
MaskedArray(vals, rv, nodata) ==
    [c \in Cells |-> IF c \in Surviving(vals, rv, nodata) THEN vals[c] ELSE -1]

\* line 291-294
RasterOut(fs, ro, vals, rv, nodata, window) ==
    IF ro THEN ("mini_raster_array" :> MaskedArray(vals, rv, nodata))
               @@ ("mini_raster_affine" :> Num(window))
               @@ ("mini_raster_nodata" :> Num(nodata)) @@ fs
    ELSE fs

\* line 296-301
Prefixed(fs, prefix) ==
    IF prefix # "None"
    THEN [k \in {prefix \o key : key \in DOMAIN fs} |->
            fs[CHOOSE key \in DOMAIN fs : prefix \o key = k]]
    ELSE fs

\* line 303-314: what is yielded; a feature arrives with the property "name"
Properties(i) == "name" :> Num(i)
Shaped(fs, c, i) ==
    IF c.geojson_out THEN [shape |-> "feature", map |-> fs @@ Properties(i)]
    ELSE IF c.save_properties
         THEN [shape |-> "properties", map |-> fs @@ Properties(i)]
         ELSE [shape |-> "stats", map |-> fs]

\* line 220-314 for a feature that reaches line 220 and raises nothing
Item(c, st, runc, vals, rv, pcov, i) ==
    LET S == Surviving(vals, rv, c.nodata)
        fs0 == IF S = {} THEN EmptyStats(st)
               ELSE PopulatedStats(st, c.categorical, runc, vals, rv,
                                   c.nodata, pcov)
        fs1 == AddStats(fs0, c.add_stats, vals, rv, c.nodata)
        fs2 == RasterOut(fs1, c.raster_out, vals, rv, c.nodata, i)
    IN Shaped(Prefixed(fs2, c.prefix), c, i)

----------------------------------------------------------------------------
\* The generator.

NoItem == [shape |-> "none", map |-> EmptyMap]

Init ==
    /\ cfg \in Configs
    /\ pc = "created"
    /\ stopped = FALSE
    /\ stats = {}
    /\ run_count = FALSE
    /\ weights = FALSE
    /\ all_touched = cfg.all_touched
    /\ rasterOpened = FALSE
    /\ nread = 0
    /\ geomKind = "none"
    /\ fsrc = "none"
    /\ pctcover = Undefined
    /\ pctFresh = FALSE
    /\ windows = 0
    /\ hits = {}
    /\ misshaped = {}
    /\ yielded = <<>>
    /\ item = NoItem
    /\ populated = FALSE
    /\ error = "none"

\* The consumer asks for the next item: the body starts at line 125, or
\* resumes after the yield of lines 310-314.
Pull ==
    /\ pc \in {"created", "yielded"}
    /\ ~stopped
    /\ pc' = IF pc = "created" THEN "check" ELSE "loop"
    /\ item' = NoItem
    /\ populated' = FALSE
    /\ pctFresh' = FALSE
    /\ UNCHANGED <<cfg, stopped, stats, run_count, weights, all_touched,
                   rasterOpened, nread, geomKind, fsrc, pctcover, windows,
                   hits, misshaped, yielded, error>>

\* The consumer stops consuming the sequence and drops the item it holds.
Stop ==
    /\ pc \in {"created", "yielded"}
    /\ ~stopped
    /\ stopped' = TRUE
    /\ item' = NoItem
    /\ populated' = FALSE
    /\ pctFresh' = FALSE
    /\ UNCHANGED <<cfg, pc, stats, run_count, weights, all_touched,
                   rasterOpened, nread, geomKind, fsrc, pctcover, windows,
                   hits, misshaped, yielded, error>>

\* CheckStats with invalid names dropped instead of raised
CheckStats_DropsInvalid ==
    /\ pc = "check"
    /\ LET st == ResolveStats(cfg.stats, cfg.categorical) \cap VALID_STATS
       IN /\ stats' = st
          /\ run_count' = NeedsHistogram(st, cfg.categorical)
          /\ weights' = NeedsWeights(st)
          /\ all_touched' = (NeedsWeights(st) \/ all_touched)
          /\ pc' = "open"
    /\ UNCHANGED <<cfg, stopped, rasterOpened, nread, geomKind, fsrc,
                   pctcover, pctFresh, windows, hits, misshaped, yielded,
                   item, populated, error>>

\* line 125-148: check_stats raises on an invalid selection; else the
\* selection is resolved and weighted statistics force all_touched.
CheckStats ==
    /\ pc = "check"
    /\ LET st == ResolveStats(cfg.stats, cfg.categorical)
       IN IF StatsValid(st)
          THEN /\ stats' = st
               /\ run_count' = NeedsHistogram(st, cfg.categorical)
               /\ weights' = NeedsWeights(st)
               /\ all_touched' = (NeedsWeights(st) \/ all_touched)
               /\ pc' = "open"
               /\ error' = error
          ELSE /\ pc' = "failed"
               /\ error' = "InvalidStatistic"
               /\ UNCHANGED <<stats, run_count, weights, all_touched>>
    /\ UNCHANGED <<cfg, stopped, rasterOpened, nread, geomKind, fsrc,
                   pctcover, pctFresh, windows, hits, misshaped, yielded,
                   item, populated>>

\* line 150-151: the raster is opened and the feature iterator is created
OpenRaster ==
    /\ pc = "open"
    /\ rasterOpened' = TRUE
    /\ pc' = "loop"
    /\ UNCHANGED <<cfg, stopped, stats, run_count, weights, all_touched,
                   nread, geomKind, fsrc, pctcover, pctFresh, windows, hits,
                   misshaped, yielded, item, populated, error>>

\* AtLoopHead of a body that reads ahead of the consumer
AtLoopHead_ReadsAhead == pc \in {"loop", "yielded"}

\* line 152: the body stands at the head of the loop over the features
AtLoopHead == pc = "loop"

\* line 152-160: the next feature is read; a point switches weights off
ReadFeature ==
    /\ AtLoopHead
    /\ nread < MaxFeatures
    /\ \E kind \in GeomKinds :
         /\ geomKind' = kind
         /\ weights' = IF kind = "Point" THEN FALSE ELSE weights
    /\ nread' = nread + 1
    /\ pc' = "window"
    /\ item' = NoItem
    /\ populated' = FALSE
    /\ UNCHANGED <<cfg, stopped, stats, run_count, all_touched, rasterOpened,
                   fsrc, pctcover, pctFresh, windows, hits, misshaped,
                   yielded, error>>

\* line 152, 150: the feature source is exhausted; the generator returns
SourceExhausted ==
    /\ AtLoopHead
    /\ pc' = "done"
    /\ item' = NoItem
    /\ populated' = FALSE
    /\ UNCHANGED <<cfg, stopped, stats, run_count, weights, all_touched,
                   rasterOpened, nread, geomKind, fsrc, pctcover, pctFresh,
                   windows, hits, misshaped, yielded, error>>

\* line 163-168: the window of the geometry's bounds is read; its cells are
\* drawn where the code first looks at them (line 188 and line 195)
ReadWindow ==
    /\ pc = "window"
    /\ fsrc' = "window"
    /\ windows' = windows + 1
    /\ pc' = "rasterize"
    /\ UNCHANGED <<cfg, stopped, stats, run_count, weights, all_touched,
                   rasterOpened, nread, geomKind, pctcover, pctFresh, hits,
                   misshaped, yielded, item, populated, error>>

\* line 170-173: MemoryError while reading the window; the feature is skipped
ReadWindowMemoryError ==
    /\ pc = "window"
    /\ hits' = hits \cup {nread}
    /\ pc' = "loop"
    /\ UNCHANGED <<cfg, stopped, stats, run_count, weights, all_touched,
                   rasterOpened, nread, geomKind, fsrc, pctcover, pctFresh,
                   windows, misshaped, yielded, item, populated, error>>

\* A feature left by `continue`: no item, back to the loop head.
Skip ==
    /\ hits' = hits \cup {nread}
    /\ pc' = "loop"
    /\ fsrc' = "none"
    /\ UNCHANGED <<cfg, stopped, stats, run_count, weights, all_touched,
                   rasterOpened, nread, geomKind, pctcover, pctFresh,
                   windows, misshaped, yielded, item, populated, error>>

\* An exception no handler of the body catches: the generator ends with it.
Raise(exc) ==
    /\ pc' = "failed"
    /\ error' = exc
    /\ fsrc' = "none"
    /\ UNCHANGED <<cfg, stopped, stats, run_count, weights, all_touched,
                   rasterOpened, nread, geomKind, pctcover, pctFresh,
                   windows, hits, misshaped, yielded, item, populated>>

\* line 176-185: MemoryError in rasterize_geom
RasterizeMemoryError ==
    /\ pc = "rasterize"
    /\ Skip

\* ShapeMismatch with the AssertionError handled like a MemoryError
ShapeMismatch_Skipped ==
    /\ pc = "rasterize"
    /\ misshaped' = misshaped \cup {nread}
    /\ hits' = hits \cup {nread}
    /\ pc' = "loop"
    /\ fsrc' = "none"
    /\ UNCHANGED <<cfg, stopped, stats, run_count, weights, all_touched,
                   rasterOpened, nread, geomKind, pctcover, pctFresh,
                   windows, yielded, item, populated, error>>

\* line 180: rasterize_geom returned an array of another shape than the
\* window; `except MemoryError` does not catch the AssertionError
ShapeMismatch ==
    /\ pc = "rasterize"
    /\ misshaped' = misshaped \cup {nread}
    /\ pc' = "failed"
    /\ error' = "AssertionError"
    /\ fsrc' = "none"
    /\ UNCHANGED <<cfg, stopped, stats, run_count, weights, all_touched,
                   rasterOpened, nread, geomKind, pctcover, pctFresh,
                   windows, hits, yielded, item, populated>>

\* line 187-189: MemoryError while the mask of the nodata statistic is
\* built; the statement stands in no try block
NodataMaskMemoryError ==
    /\ pc = "rasterize"
    /\ "nodata" \in stats
    /\ hits' = hits \cup {nread}
    /\ pc' = "failed"
    /\ error' = "MemoryError"
    /\ fsrc' = "none"
    /\ UNCHANGED <<cfg, stopped, stats, run_count, weights, all_touched,
                   rasterOpened, nread, geomKind, pctcover, pctFresh,
                   windows, misshaped, yielded, item, populated>>

\* line 191-204: MemoryError while the main mask is built
MaskedMemoryError ==
    /\ pc = "rasterize"
    /\ Skip

\* line 211-217: MemoryError in masked.compressed()
CompressedMemoryError ==
    /\ pc = "rasterize"
    /\ Skip

\* A window and the mask rasterize_geom returns for it.  No statistic reads
\* the value of a cell outside the mask, so it is fixed to 0.
Windows ==
    {w \in [vals : Arrays, rv : Masks] :
        \A c \in Cells : ~w.rv[c] => w.vals[c] = 0}

\* what rasterize_pctcover returns for a geometry whose all-touched mask is
\* rv: a weight in 0..SubSamples per cell, positive only on touched cells
WeightsOfMask ==
    [rv \in Masks |->
        {w \in [Cells -> 0..SubSamples] : \A c \in Cells : w[c] > 0 => rv[c]}]
CoverageWeights(rv) == WeightsOfMask[rv]

\* line 236: rasterize_pctcover is called for this feature
CallsPctcover(vals, rv) == Surviving(vals, rv, cfg.nodata) # {} /\ weights

\* line 244-249: a weighted statistic reads pctcover
ReadsPctcover(vals, rv) ==
    Surviving(vals, rv, cfg.nodata) # {} /\ stats \cap WeightedStats # {}

\* line 236-242: MemoryError in rasterize_pctcover
PctcoverMemoryError ==
    /\ pc = "rasterize"
    /\ (\E w \in Windows : CallsPctcover(w.vals, w.rv)) = TRUE
    /\ Skip

\* line 244-249: a weighted statistic reads pctcover, which no iteration of
\* this call has bound
UnboundPctcover ==
    /\ pc = "rasterize"
    /\ (\E w \in Windows : /\ ReadsPctcover(w.vals, w.rv)
                            /\ ~CallsPctcover(w.vals, w.rv)) = TRUE
    /\ pctcover = Undefined
    /\ Raise("NameError")

\* line 176-314 with no exception: the item of the feature is yielded
YieldItem ==
    /\ pc = "rasterize"
    /\ \E w \in Windows :
       \E pct \in IF CallsPctcover(w.vals, w.rv) THEN CoverageWeights(w.rv)
                  ELSE {ZeroWeights} :
         LET calls == CallsPctcover(w.vals, w.rv)
             pcov == IF calls THEN pct ELSE pctcover
         IN /\ ~(ReadsPctcover(w.vals, w.rv) /\ pcov = Undefined)
            /\ pctcover' = pcov
            /\ pctFresh' = calls
            /\ item' = Item(cfg, stats, run_count, w.vals, w.rv, pcov, nread)
            /\ populated' = (Surviving(w.vals, w.rv, cfg.nodata) # {})
    /\ yielded' = Append(yielded, nread)
    /\ pc' = "yielded"
    /\ fsrc' = "none"
    /\ UNCHANGED <<cfg, stopped, stats, run_count, weights, all_touched,
                   rasterOpened, nread, geomKind, windows, hits, misshaped,
                   error>>

Next ==
    \/ Pull
    \/ Stop
    \/ CheckStats
    \/ OpenRaster
    \/ ReadFeature
    \/ SourceExhausted
    \/ ReadWindow
    \/ ReadWindowMemoryError
    \/ RasterizeMemoryError
    \/ ShapeMismatch
    \/ NodataMaskMemoryError
    \/ MaskedMemoryError
    \/ CompressedMemoryError
    \/ PctcoverMemoryError
    \/ UnboundPctcover
    \/ YieldItem

Spec == Init /\ [][Next]_vars

----------------------------------------------------------------------------
\* Properties.

\* the consumer holds the item of feature nread
Holding == pc = "yielded" /\ ~stopped
\* the key under which the statistic s is looked up in an item
Key(s) == IF cfg.prefix = "None" THEN s ELSE cfg.prefix \o s
YieldedSet == {yielded[k] : k \in DOMAIN yielded}
MiniRasterKeys ==
    {"mini_raster_array", "mini_raster_affine", "mini_raster_nodata"}
\* the features whose iteration has ended
Finished == IF pc \in {"window", "rasterize"} THEN 1..(nread - 1) ELSE 1..nread

\* C1: a yielded feature with no surviving value has every requested
\* statistic None, except count, which is 0; whatever the selection, also in
\* categorical mode.
C1_EmptyFeatureAllNone ==
    (Holding /\ ~populated) =>
        \A s \in stats :
            /\ Key(s) \in DOMAIN item.map
            /\ item.map[Key(s)] = IF s = "count" THEN Num(0) ELSE None
C1_Witness ==
    /\ Holding
    /\ ~populated
    /\ cfg.categorical
    /\ stats = {"count", "nodata", "weighted_count"}

\* C2: every feature that hit no MemoryError has exactly one result, the
\* results are in input order, a feature that hit a MemoryError has none, and
\* no MemoryError aborts the call (runs with a misshaped mask set aside).
C2_OneResultPerOtherFeature ==
    (misshaped = {} /\ error # "InvalidStatistic") =>
        /\ \A i \in Finished : (i \notin hits) <=> (i \in YieldedSet)
        /\ \A j, k \in DOMAIN yielded : j < k => yielded[j] < yielded[k]
        /\ error = "none"

\* C3: with an invalid selection the call fails in check_stats: the raster
\* is never opened, no feature is read, no window is acquired and nothing is
\* yielded.
C3_InvalidSelectionFailsFirst ==
    ~StatsValid(ResolveStats(cfg.stats, cfg.categorical)) =>
        /\ pc \in {"created", "check", "failed"}
        /\ pc = "failed" => error = "InvalidStatistic"
        /\ ~rasterOpened
        /\ nread = 0
        /\ windows = 0
        /\ yielded = <<>>
        /\ item = NoItem
C3_Witness == pc = "failed" /\ error = "InvalidStatistic" /\ ~rasterOpened

\* C4: every yielded item has a key for each requested statistic.
C4_KeyForEveryStat ==
    Holding => \A s \in stats : Key(s) \in DOMAIN item.map

\* C5: a point switches the coverage weights off for itself only: while a
\* later non-point feature is processed the weights are on as configured,
\* and its weighted statistics read weights bound in its own iteration.
C5_PointDisablesOnlyItself ==
    (geomKind = "Polygon" /\ pc \in {"window", "rasterize", "yielded", "failed"}) =>
        /\ weights = NeedsWeights(stats)
        /\ error # "NameError"
        /\ (Holding /\ populated /\ NeedsWeights(stats)) => pctFresh

\* C6: when both are computed, 0 <= weighted_count <= count.
C6_WeightedCountAtMostCount ==
    (Holding /\ populated /\ {"count", "weighted_count"} \subseteq stats) =>
        LET wc == item.map[Key("weighted_count")]
            n == item.map[Key("count")]
        IN 0 <= wc[1] /\ wc[1] <= n[1] * wc[2]

\* C7: with raster_out every yielded item has the keys mini_raster_array,
\* mini_raster_affine and mini_raster_nodata, also with a prefix.
C7_RasterOutKeys ==
    (Holding /\ cfg.raster_out) => MiniRasterKeys \subseteq DOMAIN item.map

\* C8: at most one window is acquired beyond the features yielded or
\* skipped, and while the generator is suspended or the consumer has stopped
\* no window is acquired and no feature is read.
C8_Lazy ==
    /\ [](windows <= Len(yielded) + Cardinality(hits) + 1)
    /\ [][(stopped \/ pc \in {"created", "yielded"}) =>
             (windows' = windows /\ nread' = nread /\ yielded' = yielded)]_vars
C8_Witness ==
    /\ stopped
    /\ pc = "yielded"
    /\ Len(yielded) = 1
    /\ hits = {1}
    /\ windows = 1
    /\ nread = 2

\* C9: a mask of another shape than the window ends the call: the feature is
\* not skipped, has no result, and nothing is read or yielded afterwards.
C9_ShapeMismatchFatal ==
    /\ [](misshaped # {} =>
            /\ pc = "failed"
            /\ error = "AssertionError"
            /\ misshaped = {nread}
            /\ nread \notin hits
            /\ nread \notin YieldedSet)
    /\ [][misshaped # {} => UNCHANGED <<nread, windows, hits, yielded>>]_vars
C9_Witness ==
    /\ misshaped = {2}
    /\ pc = "failed"
    /\ yielded = <<1>>
    /\ nread = 2

\* C10: a weighted statistic never reads pctcover unbound, and the array it
\* reads was bound in the same iteration.
C10_PctcoverOfThisFeature ==
    /\ error # "NameError"
    /\ (Holding /\ populated /\ NeedsWeights(stats)) => pctFresh

====
